---------------------------- MODULE Spec2Model ----------------------------
(***************************************************************************)
(* AgentNet: the target network (agentnet/target_network/__init__.py) and  *)
(* the session replay environment (agentnet/environment/session_batch.py). *)
(*                                                                         *)
(* The two classes share no state.  SpecNet runs a TargetNetwork,          *)
(* SpecBuild and SpecReplay run a SessionBatchEnvironment (the first over  *)
(* many shapes of constructor arguments, the second over many recorded     *)
(* trajectories).                                                          *)
(***************************************************************************)
EXTENDS Integers, Sequences, FiniteSets, TLC

VARIABLES
    values,     \* theano shared variables: parameter object -> its value
    values0,    \* the values right after TargetNetwork.__init__ (history)
    tn,         \* the TargetNetwork object
    call,       \* the last load_weights call and how it ended
    inputs,     \* the arguments handed to SessionBatchEnvironment.__init__
    env,        \* the SessionBatchEnvironment object
    state,      \* the environment state the agent holds (a list of one vector)
    chain,      \* consecutive get_action_results calls since the all-zero state
    result      \* the last get_action_results / get_reward call and its result

netVars == <<values, values0, tn, call>>
envVars == <<inputs, env, state, chain, result>>
vars == <<values, values0, tn, call, inputs, env, state, chain, result>>

---------------------------------------------------------------------------
(* Bounds *)

NumLayers == 3      \* layers of the original network, the input layer first
MaxVal == 1         \* initial parameter values are the integers 0..MaxVal
AlphaDen == 2       \* moving_average_alpha ranges over k/AlphaDen
BatchSize == 2      \* sessions in a batch
SeqLen == 3         \* recorded ticks per session
MaxObs == 2         \* observation tensors (modalities) per environment
MaxObsVal == 2      \* recorded values are the integers 0..MaxObsVal

---------------------------------------------------------------------------
(* Exact rational numbers n/d, d > 0, in lowest terms: parameter values    *)
(* and moving_average_alpha.                                               *)

Abs(i) == IF i < 0 THEN -i ELSE i

RECURSIVE GCD(_, _)
GCD(a, b) == IF b = 0 THEN a ELSE GCD(b, a % b)

Rat(n, d) ==
    LET g == GCD(Abs(n), d) IN [n |-> n \div g, d |-> d \div g]

RatOfInt(i) == Rat(i, 1)
RatAdd(x, y) == Rat(x.n * y.d + y.n * x.d, x.d * y.d)
RatSub(x, y) == Rat(x.n * y.d - y.n * x.d, x.d * y.d)
RatMul(x, y) == Rat(x.n * y.n, x.d * y.d)
RatLeq(x, y) == x.n * y.d <= y.n * x.d

Zero == RatOfInt(0)
One == RatOfInt(1)

---------------------------------------------------------------------------
(* The original network: a chain of layers.  Layer 1 is an InputLayer (no  *)
(* parameters), layer 2 a dense layer with W and b, the others dense       *)
(* layers without bias.                                                    *)

Layers == 1 .. NumLayers

IsInputLayer(l) == l = 1

ParamNames(l) ==
    IF IsInputLayer(l) THEN <<>>
    ELSE IF l = 2 THEN <<"W", "b">>
    ELSE <<"W">>

\* A layer object; a parameter object belongs to the layer object that owns it.
Layer(net, l) == [net |-> net, layer |-> l]
Param(lay, name) == [net |-> lay.net, layer |-> lay.layer, name |-> name]

LayerParams(lay) ==
    [i \in 1 .. Len(ParamNames(lay.layer)) |-> Param(lay, ParamNames(lay.layer)[i])]

original_network_outputs == [l \in Layers |-> Layer("original", l)]

\* clone_network: every layer that is not shared is a new object with its own
\* parameters; a shared layer is the original's object itself.
clone_network(outputs, bottom_layers, share_inputs) ==
    [l \in DOMAIN outputs |->
        IF l \in bottom_layers \/ (share_inputs /\ IsInputLayer(l))
        THEN outputs[l]
        ELSE Layer("clone", l)]

RECURSIVE FlattenParams(_, _)
FlattenParams(network, l) ==
    IF l > Len(network) THEN <<>>
    ELSE LayerParams(network[l]) \o FlattenParams(network, l + 1)

\* lasagne.layers.get_all_params: the parameters in the layers' traversal order
get_all_params(network) == FlattenParams(network, 1)

OriginalParams == {get_all_params(original_network_outputs)[i] :
                     i \in 1 .. Len(get_all_params(original_network_outputs))}

\* the parameters of the clone that are its own objects
NonSharedCloneParams(output_layers) ==
    {get_all_params(output_layers)[i] : i \in 1 .. Len(get_all_params(output_layers))}
        \ OriginalParams

---------------------------------------------------------------------------
(* TargetNetwork.__init__ *)

\* line 45
all_clone_params(output_layers, outputs) == get_all_params(outputs)

\* line 46
AllOriginalParamsOfClone(output_layers, outputs) == get_all_params(output_layers)
all_original_params(output_layers, outputs) == get_all_params(outputs)

\* lines 49-51: {clone param -> original param}; a later pair with the same key
\* replaces an earlier one
param_dict(clone_params, original_params) ==
    LET idx == 1 .. (IF Len(clone_params) < Len(original_params)
                     THEN Len(clone_params) ELSE Len(original_params))
        kept == {i \in idx : clone_params[i] # original_params[i]}
    IN [k \in {clone_params[i] : i \in kept} |->
            LET last == CHOOSE i \in kept :
                          /\ clone_params[i] = k
                          /\ \A j \in kept : clone_params[j] = k => j <= i
            IN original_params[last]]

NotBuilt == [built |-> FALSE]
NoCall == [op |-> "none"]

InitialValues == {RatOfInt(i) : i \in 0 .. MaxVal}

TargetNetwork_init ==
    /\ ~tn.built
    /\ \E bottom_layers \in SUBSET Layers, share_inputs \in BOOLEAN :
         LET output_layers ==
                 clone_network(original_network_outputs, bottom_layers, share_inputs)
             fresh == NonSharedCloneParams(output_layers)
         IN /\ tn' = [built |-> TRUE,
                      output_layers |-> output_layers,
                      original_network_outputs |-> original_network_outputs,
                      bottom_layers |-> bottom_layers,
                      param_dict |->
                          param_dict(
                              all_clone_params(output_layers, original_network_outputs),
                              all_original_params(output_layers, original_network_outputs))]
            \* the clone's own parameters hold whatever clone_network left in them
            /\ \E cloned \in [fresh -> InitialValues] :
                 /\ values' = [p \in OriginalParams \cup fresh |->
                                  IF p \in fresh THEN cloned[p] ELSE values[p]]
                 /\ values0' = values'
    /\ UNCHANGED <<call, envVars>>

---------------------------------------------------------------------------
(* TargetNetwork.load_weights *)

\* line 74
AlphaValidNoLowerBound(alpha) == RatLeq(alpha, One)
AlphaValid(alpha) == RatLeq(Zero, alpha) /\ RatLeq(alpha, One)

\* line 53: theano.function([], updates=param_dict)
load_weights_hard(vals, pd) ==
    [p \in DOMAIN vals |-> IF p \in DOMAIN pd THEN vals[pd[p]] ELSE vals[p]]

\* lines 56-59: clone_param := (1-alpha)*clone_param + alpha*original_param,
\* every right-hand side read before any parameter is written
load_weights_moving_average(vals, pd, alpha) ==
    [p \in DOMAIN vals |->
        IF p \in DOMAIN pd
        THEN RatAdd(RatMul(RatSub(One, alpha), vals[p]), RatMul(alpha, vals[pd[p]]))
        ELSE vals[p]]

Alphas == {Rat(k, AlphaDen) : k \in -1 .. AlphaDen + 1}

load_weights ==
    /\ tn.built
    /\ \E moving_average_alpha \in Alphas :
         IF ~AlphaValid(moving_average_alpha)
         THEN /\ call' = [op |-> "load_weights", alpha |-> moving_average_alpha,
                          raised |-> TRUE, before |-> values]
              /\ UNCHANGED values
         ELSE /\ call' = [op |-> "load_weights", alpha |-> moving_average_alpha,
                          raised |-> FALSE, before |-> values]
              /\ values' =
                    IF moving_average_alpha = One
                    THEN load_weights_hard(values, tn.param_dict)
                    ELSE load_weights_moving_average(values, tn.param_dict,
                                                     moving_average_alpha)
    /\ UNCHANGED <<values0, tn, envVars>>

---------------------------------------------------------------------------
(* Tensors.  A tensor [batch, time, ...] is its number of dimensions, its  *)
(* dtype and, for every batch row, the sequence of its per-tick items; an  *)
(* item of a rank-2 tensor is a number, an item of a rank-3 tensor a       *)
(* vector of two numbers.  Python indices count from 0.                    *)

None == [isNone |-> TRUE]
Some(v) == [isNone |-> FALSE, v |-> v]

Item(ndim, v) == IF ndim = 2 THEN v ELSE <<v, v + 1>>
ZerosLikeItem(ndim) == IF ndim = 2 THEN 0 ELSE <<0, 0>>

Tensor(ndim, dtype, val) == [ndim |-> ndim, dtype |-> dtype, val |-> val]

Shape0(t) == Len(t.val)
Shape1(t) == Len(t.val[1])

InBounds(seq, i) == -Len(seq) <= i /\ i < Len(seq)
PyIndex(seq, i) == IF i < 0 THEN seq[Len(seq) + i + 1] ELSE seq[i + 1]

Min(a, b) == IF a < b THEN a ELSE b

\* utils.format.check_list: the arguments here are lists already
check_list(x) == x

---------------------------------------------------------------------------
(* SessionBatchEnvironment.__init__ *)

\* lines 68-69: zip stops at the shorter of the two lists
ShapesAsserted(observations, single_observation_shapes) ==
    \A i \in 1 .. Min(Len(observations), Len(single_observation_shapes)) :
        observations[i].ndim = Len(single_observation_shapes[i]) + 2

\* lines 83-86: T.concatenate([obs, T.zeros_like(obs[:, :1])], axis=1)
PaddedWithLastTick(observations) ==
    [m \in DOMAIN observations |->
        [observations[m] EXCEPT !.val =
            [b \in DOMAIN @ |-> @[b] \o SubSeq(@[b], Len(@[b]), Len(@[b]))]]]
padded_observations(observations) ==
    [m \in DOMAIN observations |->
        [observations[m] EXCEPT !.val =
            [b \in DOMAIN @ |->
                @[b] \o [i \in 1 .. Min(1, Len(@[b])) |->
                            ZerosLikeItem(observations[m].ndim)]]]]

SessionBatchEnvironment_init ==
    /\ env.status = "new"
    /\ LET self1 == [observations |-> check_list(inputs.observations),
                     single_observation_shapes |->
                         check_list(inputs.single_observation_shapes)]
           \* lines 71-75
           self2 == IF ~inputs.actions.isNone
                    THEN self1 @@
                         [actions |-> check_list(inputs.actions.v),
                          single_action_shapes |->
                              IF inputs.single_action_shapes = "all_scalar"
                              THEN [i \in 1 .. Len(check_list(inputs.actions.v)) |-> <<>>]
                              ELSE inputs.single_action_shapes]
                    ELSE self1
           \* lines 77-81
           self3 == self2 @@ [rewards |-> inputs.rewards, is_alive |-> inputs.is_alive]
           self4 == IF ~inputs.preceding_agent_memory.isNone
                    THEN self3 @@
                         [preceding_agent_memory |->
                              check_list(inputs.preceding_agent_memory.v)]
                    ELSE self3
           \* lines 83-89
           self5 == self4 @@
                    [padded_observations |-> padded_observations(self1.observations),
                     batch_size |-> Shape0(self1.observations[1]),
                     sequence_length |-> Shape1(self1.observations[1])]
       IN IF ~ShapesAsserted(self1.observations, self1.single_observation_shapes)
          THEN env' = [status |-> "AssertionError"]
          \* lines 93-100 read self.single_action_shapes and self.actions
          ELSE IF "single_action_shapes" \notin DOMAIN self5
                    \/ "actions" \notin DOMAIN self5
          THEN env' = [status |-> "AttributeError"]
          ELSE env' = [status |-> "ok", self |-> self5]
    /\ UNCHANGED <<netVars, inputs, state, chain, result>>

---------------------------------------------------------------------------
(* SessionBatchEnvironment.get_action_results *)

\* line 122: the index time_i + 1 into the padded time axis
TickIndexSameTick(time_i, b) == time_i[b]
TickIndex(time_i, b) == time_i[b] + 1

\* line 122: obs[batch_range, time_i + 1] for obs in self.padded_observations
new_observations(padded, time_i) ==
    [m \in DOMAIN padded |->
        [b \in DOMAIN time_i |-> PyIndex(padded[m].val[b], TickIndex(time_i, b))]]

IndexInBounds(padded, time_i) ==
    \A m \in DOMAIN padded : \A b \in DOMAIN time_i :
        /\ b \in DOMAIN padded[m].val
        /\ InBounds(padded[m].val[b], TickIndex(time_i, b))

\* line 123
new_states(time_i) == <<[b \in DOMAIN time_i |-> time_i[b] + 1]>>

Batch == 1 .. BatchSize

\* the states a session can be started from: every session at tick 0, or
\* session b at tick b-1
StartStates ==
    {<<[b \in Batch |-> 0]>>, <<[b \in Batch |-> (b - 1) % SeqLen]>>}

ActionArgs == {<<[b \in Batch |-> 0]>>, <<[b \in Batch |-> b]>>}

get_action_results ==
    /\ env.status = "ok"
    /\ \E last_states \in StartStates \cup (IF state = <<>> THEN {} ELSE {state}),
          actions \in ActionArgs :
         LET time_i == check_list(last_states)[1]
             padded == env.self.padded_observations
         IN IF ~IndexInBounds(padded, time_i)
            THEN /\ result' = [op |-> "get_action_results",
                               last_states |-> last_states, actions |-> actions,
                               raised |-> TRUE]
                 /\ chain' = 0
                 /\ UNCHANGED state
            ELSE /\ result' = [op |-> "get_action_results",
                               last_states |-> last_states, actions |-> actions,
                               raised |-> FALSE,
                               new_states |-> new_states(time_i),
                               new_observations |-> new_observations(padded, time_i)]
                 /\ state' = new_states(time_i)
                 /\ chain' = IF \A b \in DOMAIN time_i : time_i[b] = 0 THEN 1
                             ELSE IF chain > 0 /\ last_states = state THEN chain + 1
                             ELSE 0
    /\ UNCHANGED <<netVars, inputs, env>>

---------------------------------------------------------------------------
(* SessionBatchEnvironment.get_reward *)

\* line 137: self.rewards[batch_id, :]
RewardRowOfState(self, session_states, session_actions, batch_id) ==
    PyIndex(self.rewards.val, session_states[1])
reward_row(self, session_states, session_actions, batch_id) ==
    PyIndex(self.rewards.val, batch_id)

SessionStateArgs == {[t \in 1 .. SeqLen |-> 0], [t \in 1 .. SeqLen |-> t]}
SessionActionArgs == {[t \in 1 .. SeqLen |-> 0], [t \in 1 .. SeqLen |-> 1]}

get_reward ==
    /\ env.status = "ok"
    /\ \E session_states \in SessionStateArgs, session_actions \in SessionActionArgs,
          batch_id \in 0 .. BatchSize :
         IF ~InBounds(env.self.rewards.val, batch_id)
         THEN result' = [op |-> "get_reward", session_states |-> session_states,
                         session_actions |-> session_actions, batch_id |-> batch_id,
                         raised |-> TRUE]
         ELSE result' = [op |-> "get_reward", session_states |-> session_states,
                         session_actions |-> session_actions, batch_id |-> batch_id,
                         raised |-> FALSE,
                         reward |-> reward_row(env.self, session_states,
                                               session_actions, batch_id)]
    /\ UNCHANGED <<netVars, inputs, env, state, chain>>

---------------------------------------------------------------------------
(* Constructor arguments *)

\* the [batch, time] tables whose first row is any sequence over 0..MaxObsVal
\* and whose row b is the first row plus b-1 (modulo MaxObsVal+1), so that no
\* two neighbouring rows are equal; and the table [[1,2,3],[4,5,6]]
AllData ==
    {[b \in Batch |-> [t \in 1 .. SeqLen |-> (row[t] + b - 1) % (MaxObsVal + 1)]] :
        row \in [1 .. SeqLen -> 0 .. MaxObsVal]}
ArangeData == [b \in Batch |-> [t \in 1 .. SeqLen |-> (b - 1) * SeqLen + t]]

\* observation tensor m over a table: modality m holds the table's values plus m-1
ObsTensor(data, m, ndim) ==
    Tensor(ndim, "float32",
           [b \in Batch |-> [t \in 1 .. SeqLen |-> Item(ndim, data[b][t] + (m - 1))]])

RewardTensor(data) ==
    Tensor(2, "float32", [b \in Batch |-> [t \in 1 .. SeqLen |-> data[b][t]]])

ConstTensor(dtype, v) ==
    Tensor(2, dtype, [b \in Batch |-> [t \in 1 .. SeqLen |-> v]])

ItemShape(ndim) == IF ndim = 2 THEN <<>> ELSE <<2>>

SeqsUpTo(S, n) == UNION {[1 .. k -> S] : k \in 0 .. n}

Args(observations, shapes, actions, rewards, is_alive, memory) ==
    [observations |-> observations,
     single_observation_shapes |-> shapes,
     actions |-> actions,
     single_action_shapes |-> "all_scalar",
     rewards |-> rewards,
     is_alive |-> is_alive,
     preceding_agent_memory |-> memory]

\* every combination of tensor ranks, declared shapes and optional arguments,
\* over one recorded table
BuildInputs ==
    {Args([m \in DOMAIN ndims |-> ObsTensor(ArangeData, m, ndims[m])],
          shapes, actions, RewardTensor(ArangeData), is_alive, memory) :
        ndims \in SeqsUpTo({2, 3}, MaxObs) \ {<<>>},
        shapes \in SeqsUpTo({<<>>, <<2>>}, MaxObs),
        actions \in {None, Some(<<ConstTensor("int32", 0)>>)},
        is_alive \in {None, Some(ConstTensor("int32", 1))},
        memory \in {None, Some(<<ConstTensor("float32", 0)>>)}}

\* well-formed arguments over every recorded table: observation m has rank 2
\* when m is odd and rank 3 when m is even
ReplayNdim(m) == IF m % 2 = 1 THEN 2 ELSE 3
ReplayInputs ==
    {Args([m \in 1 .. n |-> ObsTensor(tables[1], m, ReplayNdim(m))],
          [m \in 1 .. n |-> ItemShape(ReplayNdim(m))],
          Some(<<ConstTensor("int32", 0)>>), RewardTensor(tables[2]), None, None) :
        n \in 1 .. MaxObs,
        tables \in (AllData \X {ArangeData}) \cup ({ArangeData} \X AllData)}

---------------------------------------------------------------------------
NoInputs == [none |-> TRUE]
NoEnv == [status |-> "new"]

InitEnv(argSet) ==
    /\ values = [p \in OriginalParams |-> Zero]
    /\ values0 = values
    /\ tn = NotBuilt
    /\ call = NoCall
    /\ inputs \in argSet
    /\ env = NoEnv
    /\ state = <<>>
    /\ chain = 0
    /\ result = NoCall

InitBuild == InitEnv(BuildInputs)
InitReplay == InitEnv(ReplayInputs)

NextEnv == SessionBatchEnvironment_init \/ get_action_results \/ get_reward

SpecBuild == InitBuild /\ [][NextEnv]_vars
SpecReplay == InitReplay /\ [][NextEnv]_vars

InitNet ==
    /\ values \in [OriginalParams -> InitialValues]
    /\ values0 = values
    /\ tn = NotBuilt
    /\ call = NoCall
    /\ inputs = NoInputs
    /\ env = NoEnv
    /\ state = <<>>
    /\ chain = 0
    /\ result = NoCall

NextNet == TargetNetwork_init \/ load_weights

SpecNet == InitNet /\ [][NextNet]_vars

---------------------------------------------------------------------------
(* Properties of TargetNetwork *)

\* the original parameter at the position a clone parameter has in the
\* clone's parameter list
CorrespondingOriginal(output_layers, p) ==
    LET cl == get_all_params(output_layers)
        i == CHOOSE j \in 1 .. Len(cl) : cl[j] = p
    IN get_all_params(original_network_outputs)[i]

Blend(alpha, old, source) ==
    RatAdd(RatMul(RatSub(One, alpha), old), RatMul(alpha, source))

Succeeded == tn.built /\ call.op = "load_weights" /\ ~call.raised

\* C1: after load_weights(1) every non-shared clone parameter has the value
\* of its corresponding original parameter, whatever it held before.
C1_HardSyncCopiesSource ==
    (Succeeded /\ call.alpha = One) =>
        \A p \in NonSharedCloneParams(tn.output_layers) :
            values[p] = call.before[CorrespondingOriginal(tn.output_layers, p)]

\* C2: after load_weights(alpha) with 0 <= alpha < 1 every non-shared clone
\* parameter is (1-alpha)*old_clone + alpha*source; alpha = 0 changes nothing.
C2_MovingAverageBlends ==
    (Succeeded /\ call.alpha # One) =>
        \A p \in NonSharedCloneParams(tn.output_layers) :
            values[p] = Blend(call.alpha, call.before[p],
                              call.before[CorrespondingOriginal(tn.output_layers, p)])

\* C3: whatever load_weights calls were made, every parameter of the original
\* network, the shared ones included, has the value it had at construction:
\* only the clone's own parameters can differ.
C3_OnlyCloneParamsChange ==
    tn.built =>
        \A p \in DOMAIN values \ NonSharedCloneParams(tn.output_layers) :
            values[p] = values0[p]

\* a successful hard sync of a network that shares its dense layer 2 and
\* clones another, whose clone parameter differs from its source
C3_Witness ==
    /\ Succeeded /\ call.alpha = One
    /\ 2 \in tn.bottom_layers
    /\ \E p \in NonSharedCloneParams(tn.output_layers) :
          call.before[p] # call.before[CorrespondingOriginal(tn.output_layers, p)]

\* C4: load_weights with moving_average_alpha < 0 or > 1 raises and leaves
\* every parameter as it was before the call.
C4_OutOfRangeAlphaFails ==
    (call.op = "load_weights" /\ (call.alpha.n < 0 \/ call.alpha.n > call.alpha.d)) =>
        call.raised /\ values = call.before

C4_Witness ==
    /\ call.op = "load_weights" /\ call.raised /\ call.alpha.n < 0
    /\ NonSharedCloneParams(tn.output_layers) # {}

\* C10: param_dict's keys are exactly the clone's non-shared parameters, each
\* mapped to the original parameter at the same position; no key is a parameter
\* of the original network; it is non-empty when something is not shared.
C10_ParamDictMapsCloneToOriginal ==
    tn.built =>
        /\ DOMAIN tn.param_dict = NonSharedCloneParams(tn.output_layers)
        /\ \A k \in DOMAIN tn.param_dict :
              tn.param_dict[k] = CorrespondingOriginal(tn.output_layers, k)
        /\ DOMAIN tn.param_dict \cap OriginalParams = {}
        /\ (NonSharedCloneParams(tn.output_layers) # {} => DOMAIN tn.param_dict # {})

---------------------------------------------------------------------------
(* Properties of SessionBatchEnvironment *)

Stepped == result.op = "get_action_results"
TickOf(b) == result.last_states[1][b]

\* C5: k calls of get_action_results in a row from the all-zero state,
\* 1 <= k <= sequence_length-1, return state k for every session and, for
\* every observation tensor, the recorded observation at [b, k], whatever the
\* actions.
C5_ReplayReproducesTrajectory ==
    (Stepped /\ ~result.raised /\ chain \in 1 .. Shape1(inputs.observations[1]) - 1) =>
        /\ result.new_states = <<[b \in Batch |-> chain]>>
        /\ \A m \in DOMAIN inputs.observations : \A b \in Batch :
             result.new_observations[m][b] = inputs.observations[m].val[b][chain + 1]

C5_Witness ==
    /\ Stepped /\ ~result.raised
    /\ chain = SeqLen - 1
    /\ Len(inputs.observations) = MaxObs
    /\ result.actions # <<[b \in Batch |-> 0]>>
    /\ inputs.observations[1].val[1][chain] # inputs.observations[1].val[1][chain + 1]

\* C6: get_action_results on states within the recorded ticks raises nothing,
\* the padded time axis has sequence_length+1 ticks, and a session at the last
\* recorded tick (sequence_length-1) gets state sequence_length and the
\* all-zero padding item of every observation tensor.
C6_LastTickReturnsPadding ==
    (Stepped /\ \A b \in Batch : TickOf(b) \in 0 .. env.self.sequence_length - 1) =>
        /\ ~result.raised
        /\ \A m \in DOMAIN inputs.observations : \A b \in Batch :
             /\ Len(env.self.padded_observations[m].val[b]) = env.self.sequence_length + 1
             /\ TickOf(b) + 1 < Len(env.self.padded_observations[m].val[b])
        /\ \A b \in Batch :
             TickOf(b) = env.self.sequence_length - 1 =>
                /\ result.new_states[1][b] = env.self.sequence_length
                /\ \A m \in DOMAIN inputs.observations :
                     result.new_observations[m][b] =
                         ZerosLikeItem(inputs.observations[m].ndim)

\* one session at the last recorded tick, whose recorded observation there is
\* not zero, another session earlier
C6_Witness ==
    /\ Stepped /\ ~result.raised
    /\ Len(inputs.observations) = MaxObs
    /\ \E b \in Batch : /\ TickOf(b) = SeqLen - 1
                        /\ inputs.observations[1].val[b][SeqLen] # 0
    /\ \E b \in Batch : TickOf(b) < SeqLen - 1

\* C7: get_reward(states, actions, b) returns the stored reward row b,
\* whatever states and actions are passed.
C7_RewardIsStoredRow ==
    (result.op = "get_reward" /\ result.batch_id \in 0 .. BatchSize - 1) =>
        /\ ~result.raised
        /\ result.reward = inputs.rewards.val[result.batch_id + 1]

C7_Witness ==
    /\ result.op = "get_reward" /\ ~result.raised
    /\ result.batch_id = BatchSize - 1
    /\ result.session_states[1] # result.batch_id
    /\ result.session_actions[1] # 0
    /\ inputs.rewards.val[1] # inputs.rewards.val[BatchSize]

\* an observation tensor is validated when it has a declared shape and its
\* rank is that shape's rank plus 2
Validated(i) ==
    /\ i <= Len(inputs.single_observation_shapes)
    /\ inputs.observations[i].ndim = Len(inputs.single_observation_shapes[i]) + 2

\* C8: construction fails when any observation tensor of the list, also one
\* past the end of a shorter list of declared shapes, does not have its
\* declared shape's rank plus 2.
C8_EveryObservationRankChecked ==
    env.status = "ok" => \A i \in DOMAIN inputs.observations : Validated(i)

\* C9: with valid observation tensors and a reward tensor, construction
\* succeeds whether or not actions, is_alive and preceding_agent_memory are
\* given.
C9_OptionalArgumentsMayBeOmitted ==
    (/\ env.status # "new"
     /\ Len(inputs.observations) = Len(inputs.single_observation_shapes)
     /\ \A i \in DOMAIN inputs.observations : Validated(i))
        => env.status = "ok"

=============================================================================
